---- MODULE Spec2Model ----
(***************************************************************************)
(* kmgrid: keyboard-driven pointer navigation (src/src/main.rs).           *)
(*                                                                         *)
(* One Poll action models one call of MyApp::handle_input, i.e. one frame  *)
(* of eframe::App::update without the painting.  The handlers are          *)
(* translated statement by statement over a record s that threads the      *)
(* fields of SharedState together with the effects of the pass (the calls  *)
(* made on the enigo driver, the viewport commands sent).                  *)
(*                                                                         *)
(* Arithmetic: the code computes positions in f32; the model computes the  *)
(* same expressions exactly, as integer numerators over the denominators   *)
(* 40 (x) and 24 (y), and applies the `as i32` truncation of the code.     *)
(***************************************************************************)
EXTENDS Integers, Sequences, FiniteSets, TLC

VARIABLES
    displays,          \* SharedState.displays: the registry, fixed at startup
    config,            \* SharedState.config: the numeric fields the handlers read
    current_display,   \* SharedState.current_display (0-based index)
    mode,              \* SharedState.mode
    region,            \* SharedState.region
    cell,              \* SharedState.cell
    mouse_key_down,    \* SharedState.mouse_key_down: the armed keys
    calls,             \* the enigo calls of the last pass, in order, each with its result
    viewport,          \* the ViewportCommands sent by the last pass, in order
    handled,           \* the mode handlers the last pass ran, in order
    closed,            \* ViewportCommand::Close has been sent: the session ends
    hist               \* observer of the inputs of the passes (not program state)

vars == <<displays, config, current_display, mode, region, cell, mouse_key_down,
          calls, viewport, handled, closed, hist>>

(***************************************************************************)
(* Bounds of the model.                                                    *)
(***************************************************************************)
MaxDisplays == 3

MaxRun == 6

(***************************************************************************)
(* KeyBindings: a configuration in which every binding has its own key.    *)
(***************************************************************************)
left_region == <<"LR0", "LR1", "LR2", "LR3">>

right_region == <<"RR0", "RR1", "RR2", "RR3">>

left_grid == <<"LG0", "LG1", "LG2", "LG3", "LG4", "LG5", "LG6", "LG7", "LG8", "LG9",
               "LG10", "LG11", "LG12", "LG13", "LG14">>

right_grid == <<"RG0", "RG1", "RG2", "RG3", "RG4", "RG5", "RG6", "RG7", "RG8", "RG9",
                "RG10", "RG11", "RG12", "RG13", "RG14">>

key_bindings ==
    [prev_screen |-> "prev_screen", next_screen |-> "next_screen",
     skip_to_cell |-> "skip_to_cell"]

mouse ==
    [move_up |-> "move_up", move_down |-> "move_down",
     move_left |-> "move_left", move_right |-> "move_right",
     left_click |-> "left_click", left_click_and_exit |-> "left_click_and_exit",
     middle_click |-> "middle_click", right_click |-> "right_click",
     left_click_down |-> "left_click_down", left_click_up |-> "left_click_up",
     scroll_up |-> "scroll_up", scroll_down |-> "scroll_down",
     scroll_left |-> "scroll_left", scroll_right |-> "scroll_right",
     speed_quarter |-> "speed_quarter", speed_half |-> "speed_half",
     speed_twice |-> "speed_twice", speed_quadruple |-> "speed_quadruple"]

Range(f) == {f[i] : i \in DOMAIN f}

\* left_region.iter().chain(right_region.iter())
region_bindings == left_region \o right_region

\* left_grid.iter().chain(right_grid.iter())
grid_bindings == left_grid \o right_grid

RegionKeys == Range(region_bindings)

GridKeys == Range(grid_bindings)

ScreenKeys == {key_bindings.prev_screen, key_bindings.next_screen}

ClickKeys == {mouse.left_click, mouse.left_click_and_exit, mouse.middle_click,
              mouse.right_click, mouse.left_click_down, mouse.left_click_up}

ScrollKeys == {mouse.scroll_up, mouse.scroll_down, mouse.scroll_left, mouse.scroll_right}

MoveKeys == {mouse.move_up, mouse.move_down, mouse.move_left, mouse.move_right}

ContinuousKeys == ScrollKeys \cup MoveKeys

SpeedKeys == {mouse.speed_quarter, mouse.speed_half, mouse.speed_twice,
              mouse.speed_quadruple}

\* the keys the handlers test with is_pressed
EdgeKeys == RegionKeys \cup GridKeys \cup ScreenKeys \cup ClickKeys
            \cup {key_bindings.skip_to_cell, "Backspace", "Enter", "Escape"}

(***************************************************************************)
(* The display registry.  DisplayPool lists the displays DisplayInfo::all  *)
(* may report; a registry is a prefix of it.  Display 1 is the primary     *)
(* one (it carries the configured offset); display 2 lies to its right and *)
(* shares the edge x = 1000 with it; display 3 lies to its left, at        *)
(* negative coordinates; display 4 lies below it.                          *)
(***************************************************************************)
Display(x, y, w, h, ox, oy) ==
    [pos |-> <<x, y>>, size |-> <<w, h>>, offset |-> <<ox, oy>>]

DisplayPool ==
    << Display(0, 0, 1000, 900, 0, 30),
       Display(1000, 0, 1366, 768, 0, 0),
       Display(-800, 100, 800, 600, 0, 0),
       Display(0, 900, 640, 480, 0, 0) >>

Registries ==
    {SubSeq(DisplayPool, 1, n) : n \in 1..(IF MaxDisplays < Len(DisplayPool)
                                             THEN MaxDisplays ELSE Len(DisplayPool))}

(***************************************************************************)
(* Geometry.                                                               *)
(***************************************************************************)
\* `as i32` of the rational a / b (b > 0): truncation towards zero
TruncDiv(a, b) == IF a >= 0 THEN a \div b ELSE -((-a) \div b)

\* egui::Rect::from_min_size(d.pos, d.size).contains(p): both edges inclusive
contains(d, p) ==
    /\ d.pos[1] <= p[1] /\ p[1] <= d.pos[1] + d.size[1]
    /\ d.pos[2] <= p[2] /\ p[2] <= d.pos[2] + d.size[2]

\* the warp without the shift of the right-hand grid keys (i >= 15)
grid_warp_target_unshifted(d, r, i) ==
    <<TruncDiv(40 * d.pos[1] + d.size[1] * ((IF r >= 4 THEN 20 ELSE 0) + 2 * (i % 5) + 1), 40),
      TruncDiv(24 * d.pos[2] + d.size[2] * (6 * (r % 4) + 2 * ((i % 15) \div 5) + 1), 24)>>

\* the warp with the row taken from i / 5 instead of (i % 15) / 5
grid_warp_target_rows(d, r, i) ==
    <<TruncDiv(40 * d.pos[1] + d.size[1] * ((IF r >= 4 THEN 20 ELSE 0) + 2 * (i % 5) + 1
                                           + (IF i >= 15 THEN 10 ELSE 0)), 40),
      TruncDiv(24 * d.pos[2] + d.size[2] * (6 * (r % 4) + 2 * (i \div 5) + 1), 24)>>

\* handle_grid_input: the position handed to move_mouse for grid key i (0-based)
\* in region r of display d.  region_size = (w/2, h/4), cell_size = (w/20, h/12):
\*   x = px + [r >= 4] w/2 + (i % 5) w/20 + w/40 + [i >= 15] w/4
\*   y = py + (r % 4) h/4 + ((i % 15) / 5) h/12 + h/24
grid_warp_target(d, r, i) ==
    LET col == i % 5
        row == (i % 15) \div 5
        xnum == 40 * d.pos[1]
                + d.size[1] * ((IF r >= 4 THEN 20 ELSE 0) + 2 * col + 1
                               + (IF i >= 15 THEN 10 ELSE 0))
        ynum == 24 * d.pos[2] + d.size[2] * (6 * (r % 4) + 2 * row + 1)
    IN  <<TruncDiv(xnum, 40), TruncDiv(ynum, 24)>>

\* skip_to_cell: the (region, cell) computed for pointer position p on display d
\*   cell_x = (rel.x / (w/20)) as i32, cell_y = (rel.y / (h/12)) as i32
locate_in(d, p) ==
    LET cell_x == TruncDiv(20 * (p[1] - d.pos[1]), d.size[1])
        cell_y == TruncDiv(12 * (p[2] - d.pos[2]), d.size[2])
        reg == (cell_y \div 3) + (IF cell_x >= 10 THEN 4 ELSE 0)
        cx == cell_x % 10
        cy == cell_y % 3
    IN  [region |-> reg,
         cell |-> IF cx >= 5 THEN 15 + cy * 5 + (cx - 5) ELSE cy * 5 + cx]

\* the index (0-based) of the last display of the registry that contains p, or -1
last_containing(ds, p) ==
    IF \E i \in 1..Len(ds) : contains(ds[i], p)
    THEN (CHOOSE i \in 1..Len(ds) :
              /\ contains(ds[i], p)
              /\ \A j \in (i + 1)..Len(ds) : ~contains(ds[j], p)) - 1
    ELSE -1

\* the index (0-based) of the first display of the registry that contains p, or -1
first_containing(ds, p) ==
    IF \E i \in 1..Len(ds) : contains(ds[i], p)
    THEN (CHOOSE i \in 1..Len(ds) :
              /\ contains(ds[i], p)
              /\ \A j \in 1..(i - 1) : ~contains(ds[j], p)) - 1
    ELSE -1

(***************************************************************************)
(* The pass record and its statements.  s.err is set when an enigo call    *)
(* has returned Err: the `?` of the handlers then returns from the pass,   *)
(* so every later statement leaves s alone.                                *)
(***************************************************************************)
is_pressed(in, k) == k \in in.pressed

is_held(in, k) == k \in in.held

\* the index (0-based) of the first binding whose key is pressed, or -1:
\* the `for (i, key) in bindings.enumerate() { if is_pressed(*key) { ...; break } }`
first_pressed(bindings, in) ==
    IF \E i \in 1..Len(bindings) : is_pressed(in, bindings[i])
    THEN (CHOOSE i \in 1..Len(bindings) :
              /\ is_pressed(in, bindings[i])
              /\ \A j \in 1..(i - 1) : ~is_pressed(in, bindings[j])) - 1
    ELSE -1

Call(op, arg, x, y) == [op |-> op, arg |-> arg, x |-> x, y |-> y, ok |-> TRUE]

Cmd(cmd, x, y) == [cmd |-> cmd, x |-> x, y |-> y]

\* one call on the enigo driver followed by `?`; the driver fails the call
\* numbered in.fail_at of the pass (0: none)
enigo(s, in, call) ==
    IF s.err THEN s
    ELSE LET ok == (Len(s.calls) + 1 # in.fail_at)
         IN  [s EXCEPT !.calls = Append(@, [call EXCEPT !.ok = ok]), !.err = ~ok]

\* ctx.send_viewport_cmd
send_viewport_cmd(s, cmd) ==
    IF s.err THEN s ELSE [s EXCEPT !.viewport = Append(@, cmd)]

set_mode(s, m) == IF s.err THEN s ELSE [s EXCEPT !.mode = m]

\* self.state.mouse_key_down.clear()
clear_mouse_key_down(s) == IF s.err THEN s ELSE [s EXCEPT !.mouse_key_down = {}]

\* move_to_display: the body, for the display d = displays[idx]
show_display(s, d, idx) ==
    send_viewport_cmd(
        send_viewport_cmd([s EXCEPT !.current_display = idx],
                          Cmd("InnerSize", d.size[1] - d.offset[1],
                                           d.size[2] - d.offset[2])),
        Cmd("OuterPosition", d.pos[1] + d.offset[1], d.pos[2] + d.offset[2]))

\* move_to_display storing the index it is given, not reduced modulo the registry
move_to_display_unreduced(s, ds, display_idx) ==
    show_display(s, ds[(display_idx % Len(ds)) + 1], display_idx)

\* MyApp::move_to_display
move_to_display(s, ds, display_idx) ==
    show_display(s, ds[(display_idx % Len(ds)) + 1], display_idx % Len(ds))

\* skip_to_cell: the stores of region and cell, and the clear of the armed keys
store_located(s, rc) ==
    [s EXCEPT !.region = rc.region, !.cell = rc.cell, !.mouse_key_down = {}]

\* skip_to_cell: the body of the loop for the first containing display, i
skip_found(s, ds, p, i) ==
    store_located(
        IF i # s.current_display
        THEN move_to_display([s EXCEPT !.mode = "Cell"], ds, i)
        ELSE [s EXCEPT !.mode = "Cell"],
        locate_in(ds[i + 1], p))

\* the loop falling back to the first display of the registry when none contains p
skip_at_fallback(s, ds, p, i) == skip_found(s, ds, p, IF i < 0 THEN 0 ELSE i)

\* skip_to_cell: the loop over the registry, i the first containing display or -1
skip_at(s, ds, p, i) == IF i < 0 THEN s ELSE skip_found(s, ds, p, i)

\* MyApp::skip_to_cell, with p the result of query_pointer
skip_to_cell(s, ds, p) == skip_at(s, ds, p, first_containing(ds, p))

\* the prev-screen arm without the wrap from display 0 to the last display
prev_display_nowrap(cur, n) == IF cur = 0 THEN 0 ELSE cur - 1

\* handle_screen_input: the display the prev-screen key asks for
prev_display(cur, n) == IF cur = 0 THEN n - 1 ELSE cur - 1

\* the next-screen arm stepping two displays
next_display_skip(cur, n) == cur + 2

\* handle_screen_input: the display the next-screen key asks for
next_display(cur, n) == cur + 1

\* handle_screen_input: the body of the region loop for the first pressed key, i
region_selected(s, i) ==
    IF i >= 0 THEN [s EXCEPT !.region = i, !.mode = "Narrow", !.cell = -1] ELSE s

\* handle_screen_input: the region loop
screen_region(s, in) == region_selected(s, first_pressed(region_bindings, in))

\* handle_screen_input: Backspace closes the viewport
screen_quit(s, in) ==
    IF is_pressed(in, "Backspace") THEN send_viewport_cmd(s, Cmd("Close", 0, 0)) ELSE s

\* handle_screen_input: the skip-to-cell key
screen_skip(s, ds, in) ==
    IF is_pressed(in, key_bindings.skip_to_cell) THEN skip_to_cell(s, ds, in.pointer) ELSE s

\* handle_screen_input: the prev-screen / next-screen chain
screen_switch(s, ds, in) ==
    IF is_pressed(in, key_bindings.prev_screen)
    THEN move_to_display(s, ds, prev_display(s.current_display, Len(ds)))
    ELSE IF is_pressed(in, key_bindings.next_screen)
    THEN move_to_display(s, ds, next_display(s.current_display, Len(ds)))
    ELSE s

\* MyApp::handle_screen_input
handle_screen_input(s, ds, in) ==
    screen_switch(screen_skip(screen_quit(screen_region(s, in), in), ds, in), ds, in)

\* the confirm key without its guard on cell
confirm_always(c) == TRUE

\* handle_grid_input: the guard of the confirm key
confirm_allowed(c) == c >= 0

\* handle_grid_input: the move_mouse call of the warp to position pos
warp_call(pos) == Call("move_mouse", "Abs", pos[1], pos[2])

\* the body for grid key i with the store of cell made after the warp
grid_key_pressed_cell_after(s, ds, in, i) ==
    LET w == enigo(s, in, warp_call(grid_warp_target(ds[s.current_display + 1], s.region, i)))
    IN  IF w.err THEN w
        ELSE clear_mouse_key_down(set_mode([w EXCEPT !.cell = i], "Cell"))

\* the body for grid key i without the store of the mode
grid_key_pressed_stay(s, ds, in, i) ==
    clear_mouse_key_down(
        enigo([s EXCEPT !.cell = i], in,
              warp_call(grid_warp_target(ds[s.current_display + 1], s.region, i))))

\* handle_grid_input: the body of `if is_pressed(*key)` for grid key i
grid_key_pressed(s, ds, in, i) ==
    clear_mouse_key_down(
        set_mode(
            enigo([s EXCEPT !.cell = i], in,
                  warp_call(grid_warp_target(ds[s.current_display + 1], s.region, i))),
            "Cell"))

\* handle_grid_input: the grid loop, i the first pressed grid key or -1
grid_loop(s, ds, in, i) == IF i >= 0 THEN grid_key_pressed(s, ds, in, i) ELSE s

\* handle_grid_input: the back key, reached when the warp did not fail
grid_back(s, in) ==
    IF is_pressed(in, "Backspace") THEN set_mode(s, "Screen") ELSE s

\* the confirm key entering Cell whatever cell is
grid_confirm_unguarded(s, in) ==
    IF is_pressed(in, "Enter") THEN set_mode(s, "Cell") ELSE s

\* handle_grid_input: the confirm key, reached when the warp did not fail
grid_confirm(s, in) ==
    IF is_pressed(in, "Enter") /\ confirm_allowed(s.cell) THEN set_mode(s, "Cell") ELSE s

\* MyApp::handle_grid_input
handle_grid_input(s, ds, in) ==
    grid_confirm(
        grid_back(grid_loop(s, ds, in, first_pressed(grid_bindings, in)), in),
        in)

(***************************************************************************)
(* Cell mode.                                                              *)
(***************************************************************************)
\* handle_cell_input::is_held_with_check: the value returned for key k
is_held_with_check(armed, in, k) == IF k \in armed THEN is_held(in, k) ELSE FALSE

\* handle_cell_input::is_held_with_check: mouse_key_down after the call for key k
armed_after_check(armed, in, k) ==
    IF k \notin armed /\ ~is_held(in, k) THEN armed \cup {k} ELSE armed

\* the effect on the pass of evaluating is_held_with_check(k)
checked(s, in, k) ==
    IF s.err THEN s
    ELSE [s EXCEPT !.mouse_key_down = armed_after_check(@, in, k)]

\* the value of is_held_with_check(k) when the pass evaluates it in s
fires(s, in, k) == ~s.err /\ is_held_with_check(s.mouse_key_down, in, k)

\* handle_cell_input: the left_click_and_exit binding
cell_click_and_exit(s, in) ==
    IF is_pressed(in, mouse.left_click_and_exit)
    THEN send_viewport_cmd(enigo(s, in, Call("button", "Left:Click", 0, 0)),
                           Cmd("Close", 0, 0))
    ELSE s

\* handle_cell_input: the left / right / middle click chain
cell_clicks(s, in) ==
    IF is_pressed(in, mouse.left_click)
    THEN send_viewport_cmd(enigo(s, in, Call("button", "Left:Click", 0, 0)),
                           Cmd("Focus", 0, 0))
    ELSE IF is_pressed(in, mouse.right_click)
    THEN send_viewport_cmd(enigo(s, in, Call("button", "Right:Click", 0, 0)),
                           Cmd("Close", 0, 0))
    ELSE IF is_pressed(in, mouse.middle_click)
    THEN send_viewport_cmd(enigo(s, in, Call("button", "Middle:Click", 0, 0)),
                           Cmd("Close", 0, 0))
    ELSE s

\* the body of one scroll branch: enigo.scroll(..)?; enigo.move_mouse(0, 0, Rel)?
scroll_body(s, in, amount, axis) ==
    enigo(enigo(s, in, Call("scroll", axis, amount, 0)),
          in, Call("move_mouse", "Rel", 0, 0))

\* one branch of the scroll chain: `if is_held_with_check(k) { body } else { rest }`
\* where rest is the pass after the remaining branches
scroll_branch(s, in, k, amount, axis, rest) ==
    IF fires(s, in, k) THEN scroll_body(checked(s, in, k), in, amount, axis) ELSE rest

scroll_right_branch(s, cfg, in) ==
    scroll_branch(s, in, mouse.scroll_right, cfg.scroll_speed, "Horizontal",
                  checked(s, in, mouse.scroll_right))

scroll_left_branch(s, cfg, in) ==
    scroll_branch(s, in, mouse.scroll_left, -cfg.scroll_speed, "Horizontal",
                  scroll_right_branch(checked(s, in, mouse.scroll_left), cfg, in))

scroll_down_branch(s, cfg, in) ==
    scroll_branch(s, in, mouse.scroll_down, cfg.scroll_speed, "Vertical",
                  scroll_left_branch(checked(s, in, mouse.scroll_down), cfg, in))

\* the scroll chain with scroll_down tested before scroll_up
cell_scroll_down_first(s, cfg, in) ==
    scroll_branch(s, in, mouse.scroll_down, cfg.scroll_speed, "Vertical",
        scroll_branch(checked(s, in, mouse.scroll_down), in, mouse.scroll_up,
                      -cfg.scroll_speed, "Vertical",
                      scroll_left_branch(
                          checked(checked(s, in, mouse.scroll_down), in, mouse.scroll_up),
                          cfg, in)))

\* handle_cell_input: the scroll if / else-if chain, in the order up, down, left, right
cell_scroll(s, cfg, in) ==
    scroll_branch(s, in, mouse.scroll_up, -cfg.scroll_speed, "Vertical",
                  scroll_down_branch(checked(s, in, mouse.scroll_up), cfg, in))

\* handle_cell_input: the press-down / press-up chain
cell_press(s, in) ==
    IF is_pressed(in, mouse.left_click_down)
    THEN enigo(s, in, Call("button", "Left:Press", 0, 0))
    ELSE IF is_pressed(in, mouse.left_click_up)
    THEN enigo(s, in, Call("button", "Left:Release", 0, 0))
    ELSE s

\* one `if is_held(k) { dist /= n; }` (i32 division)
speed_div(dist, in, k, n) == IF is_held(in, k) THEN TruncDiv(dist, n) ELSE dist

\* one `if is_held(k) { dist *= n; }`
speed_mul(dist, in, k, n) == IF is_held(in, k) THEN dist * n ELSE dist

\* dist with the two multiplications applied before the two divisions
move_dist_mul_first(cfg, in) ==
    speed_div(
        speed_div(
            speed_mul(
                speed_mul(cfg.movement_speed, in, mouse.speed_twice, 2),
                in, mouse.speed_quadruple, 4),
            in, mouse.speed_quarter, 4),
        in, mouse.speed_half, 2)

\* handle_cell_input: dist, from movement_speed and the speed modifiers
move_dist(cfg, in) ==
    speed_mul(
        speed_mul(
            speed_div(
                speed_div(cfg.movement_speed, in, mouse.speed_quarter, 4),
                in, mouse.speed_half, 2),
            in, mouse.speed_twice, 2),
        in, mouse.speed_quadruple, 4)

\* one `if is_held_with_check(k) { enigo.move_mouse(x, y, Rel)?; }`
cell_move(s, in, k, x, y) ==
    IF fires(s, in, k)
    THEN enigo(checked(s, in, k), in, Call("move_mouse", "Rel", x, y))
    ELSE checked(s, in, k)

\* the four move bindings, in the order down, up, left, right
cell_moves_by(s, in, dist) ==
    cell_move(
        cell_move(
            cell_move(
                cell_move(s, in, mouse.move_down, 0, dist),
                in, mouse.move_up, 0, -dist),
            in, mouse.move_left, -dist, 0),
        in, mouse.move_right, dist, 0)

\* handle_cell_input: the relative moves
cell_moves(s, cfg, in) == cell_moves_by(s, in, move_dist(cfg, in))

\* the back key leaving Cell for Screen
cell_back_to_screen(s, in) ==
    IF is_pressed(in, "Backspace") THEN set_mode(s, "Screen") ELSE s

\* handle_cell_input: the back key
cell_back(s, in) ==
    IF is_pressed(in, "Backspace") THEN set_mode(s, "Narrow") ELSE s

\* MyApp::handle_cell_input
handle_cell_input(s, cfg, in) ==
    cell_back(
        cell_moves(
            cell_press(
                cell_scroll(
                    cell_clicks(cell_click_and_exit(s, in), in),
                    cfg, in),
                in),
            cfg, in),
        in)

(***************************************************************************)
(* The pass.                                                               *)
(***************************************************************************)
\* the three handlers as independent `if`s, each testing the mode as it is by then
dispatch_mode_fallthrough(s, ds, cfg, in) ==
    LET a == IF s.mode = "Screen"
             THEN handle_screen_input([s EXCEPT !.handled = Append(@, "Screen")], ds, in)
             ELSE s
        b == IF a.mode = "Narrow"
             THEN handle_grid_input([a EXCEPT !.handled = Append(@, "Narrow")], ds, in)
             ELSE a
    IN  IF b.mode = "Cell"
        THEN handle_cell_input([b EXCEPT !.handled = Append(@, "Cell")], cfg, in)
        ELSE b

\* handle_input: the handler selected by the mode the pass starts in
dispatch_mode(s, ds, cfg, in) ==
    IF s.mode = "Screen"
    THEN handle_screen_input([s EXCEPT !.handled = Append(@, "Screen")], ds, in)
    ELSE IF s.mode = "Narrow"
    THEN handle_grid_input([s EXCEPT !.handled = Append(@, "Narrow")], ds, in)
    ELSE IF s.mode = "Cell"
    THEN handle_cell_input([s EXCEPT !.handled = Append(@, "Cell")], cfg, in)
    ELSE s

\* handle_input: Escape closes the viewport
input_quit(s, in) ==
    IF is_pressed(in, "Escape") THEN send_viewport_cmd(s, Cmd("Close", 0, 0)) ELSE s

\* MyApp::handle_input
handle_input(s, ds, cfg, in) == dispatch_mode(input_quit(s, in), ds, cfg, in)

\* the pass record at the start of a pass
pass_start ==
    [mode |-> mode, region |-> region, cell |-> cell,
     current_display |-> current_display, mouse_key_down |-> mouse_key_down,
     calls |-> <<>>, viewport |-> <<>>, handled |-> <<>>, err |-> FALSE]

NoPointer == <<>>

Input(pressed, held, pointer, fail_at) ==
    [pressed |-> pressed, held |-> held, pointer |-> pointer, fail_at |-> fail_at]

\* skip_to_cell runs in this pass: the only place the pointer is queried
queries_pointer(in) == mode = "Screen" /\ is_pressed(in, key_bindings.skip_to_cell)

CloseSent(cmds) == \E i \in 1..Len(cmds) : cmds[i].cmd = "Close"

\* the stores of a pass: the fields of SharedState and the effects of the pass.
\* The driver fault in.fail_at is an input only when the pass reaches that call.
Commit(s, in) ==
    /\ in.fail_at # 0 => s.err
    /\ mode' = s.mode
    /\ region' = s.region
    /\ cell' = s.cell
    /\ current_display' = s.current_display
    /\ mouse_key_down' = s.mouse_key_down
    /\ calls' = s.calls
    /\ viewport' = s.viewport
    /\ handled' = s.handled
    /\ closed' = CloseSent(s.viewport)

\* One frame: eframe::App::update calls handle_input and logs its error.
Poll(in) ==
    /\ ~closed
    /\ (in.pointer # NoPointer) <=> queries_pointer(in)
    /\ Commit(handle_input(pass_start, displays, config, in), in)
    /\ UNCHANGED <<displays, config>>

(***************************************************************************)
(* Startup (main): mode Screen, region 0, cell -1, nothing armed; the      *)
(* active display is the one that holds the pointer at startup.            *)
(***************************************************************************)
DefaultConfig == [movement_speed |-> 100, scroll_speed |-> 5]

NoRun == [key |-> "", count |-> 0, start |-> 0]

NoHist ==
    [age |-> 0,
     held |-> [k \in ContinuousKeys |-> 0],
     fired |-> [k \in ContinuousKeys |-> 0],
     released |-> {},
     entry |-> "",
     run |-> NoRun,
     last |-> Input({}, {}, NoPointer, 0)]

\* startup with one of the registries and one of the configurations
StartupWith(registries, configs) ==
    /\ displays \in registries
    /\ config \in configs
    /\ current_display \in 0..(Len(displays) - 1)
    /\ mode = "Screen"
    /\ region = 0
    /\ cell = -1
    /\ mouse_key_down = {}
    /\ calls = <<>>
    /\ viewport = <<>>
    /\ handled = <<>>
    /\ closed = FALSE
    /\ hist = NoHist

Startup(registries) == StartupWith(registries, {DefaultConfig})

Init == Startup(Registries)

\* startup on a desk of two displays
InitDesk == Startup({SubSeq(DisplayPool, 1, 2)})

(***************************************************************************)
(* Observers of the passes (hist).  They record what the user did and what *)
(* the driver was asked to do; the program never reads them.               *)
(***************************************************************************)
Singles(K) == {{k} : k \in K}

Pairs(K) == {{k1, k2} : k1, k2 \in K}

Min(a, b) == IF a < b THEN a ELSE b

\* the enigo call the binding of continuous key k dispatches
key_call(k, cfg, in) ==
    IF k = mouse.scroll_up THEN Call("scroll", "Vertical", -cfg.scroll_speed, 0)
    ELSE IF k = mouse.scroll_down THEN Call("scroll", "Vertical", cfg.scroll_speed, 0)
    ELSE IF k = mouse.scroll_left THEN Call("scroll", "Horizontal", -cfg.scroll_speed, 0)
    ELSE IF k = mouse.scroll_right THEN Call("scroll", "Horizontal", cfg.scroll_speed, 0)
    ELSE IF k = mouse.move_down THEN Call("move_mouse", "Rel", 0, move_dist(cfg, in))
    ELSE IF k = mouse.move_up THEN Call("move_mouse", "Rel", 0, -move_dist(cfg, in))
    ELSE IF k = mouse.move_left THEN Call("move_mouse", "Rel", -move_dist(cfg, in), 0)
    ELSE Call("move_mouse", "Rel", move_dist(cfg, in), 0)

\* the pass whose calls are cs dispatched call c (whatever its result)
Dispatched(cs, c) == \E i \in 1..Len(cs) : [cs[i] EXCEPT !.ok = TRUE] = c

\* how the pass from the current state to s entered Cell, "" if it did not
EntryKind(s, in) ==
    IF mode = "Cell" \/ s.mode # "Cell" THEN ""
    ELSE IF mode = "Screen" THEN "skip"
    ELSE IF first_pressed(grid_bindings, in) >= 0 THEN "grid"
    ELSE "confirm"

\* the observer of held keys: for each continuous key the number of consecutive
\* passes on which it was held (held) and on which its action was dispatched
\* (fired), the number of consecutive passes the Cell handler ran (age), the keys
\* that were up on one of these (released), how Cell was entered (entry), and
\* the input of the last pass (last)
ObserveHold(s, in) ==
    [hist EXCEPT
        !.age = IF mode = "Cell" THEN Min(@ + 1, MaxRun) ELSE 0,
        !.held = [k \in ContinuousKeys |->
                    IF is_held(in, k) THEN Min(@[k] + 1, MaxRun) ELSE 0],
        !.fired = [k \in ContinuousKeys |->
                    IF Dispatched(s.calls, key_call(k, config, in))
                    THEN Min(@[k] + 1, MaxRun) ELSE 0],
        !.released = IF mode = "Cell"
                     THEN @ \cup {k \in ContinuousKeys : ~is_held(in, k)}
                     ELSE {},
        !.entry = IF mode = "Cell" THEN @ ELSE EntryKind(s, in),
        !.last = in]

\* the observer of screen switching: the run of consecutive passes of the Screen
\* handler in which the same screen key, and no other key, went down
ObserveRun(s, in) ==
    [hist EXCEPT
        !.run = IF mode = "Screen" /\ in.pressed \in Singles(ScreenKeys)
                THEN IF in.pressed = {@.key}
                     THEN [@ EXCEPT !.count = Min(@ + 1, MaxRun)]
                     ELSE [key |-> CHOOSE k \in in.pressed : TRUE, count |-> 1,
                           start |-> current_display]
                ELSE NoRun,
        !.last = in]

\* the record of the pass on input in from the current state
pass_result(in) == handle_input(pass_start, displays, config, in)

\* a pass on input in, after which the observer holds h
Watched(in, h) ==
    /\ Poll(in)
    /\ hist' = h

(***************************************************************************)
(* Specification Spec: every handler, on a desk of two displays.  The user *)
(* presses one key of DeskKeys or two keys of ComboKeys in a poll, or      *)
(* holds one continuous key; the driver may fail one of the first MaxFault *)
(* calls of a pass; the pointer is at one of PointerSamples when queried.  *)
(***************************************************************************)
MaxFault == 2

ComboKeys == {"LR1", "RR2", "LG3", "RG14", "Backspace", "Enter", "Escape",
              key_bindings.skip_to_cell, key_bindings.prev_screen,
              key_bindings.next_screen, mouse.left_click, mouse.left_click_and_exit}

DeskKeys == ComboKeys \cup ClickKeys

DeskHeld == {mouse.scroll_up, mouse.scroll_down, mouse.move_down}

DeskInputs ==
    {Input(P, {}, NoPointer, 0) : P \in {{}} \cup Singles(DeskKeys) \cup Pairs(ComboKeys)}
    \cup {Input(P, {}, NoPointer, f) :
            P \in Singles(GridKeys \cap DeskKeys) \cup Singles(ClickKeys), f \in 1..MaxFault}
    \cup {Input(P, H, NoPointer, f) :
            P \in {{}, {"Backspace"}, {mouse.left_click}}, H \in Singles(DeskHeld),
            f \in 0..MaxFault}

\* a point inside display d, its bottom-right corner, and a point outside every display
PointerSamples(ds) ==
    UNION {{grid_warp_target(ds[i], 5, 7),
            <<ds[i].pos[1] + ds[i].size[1], ds[i].pos[2] + ds[i].size[2]>>}
           : i \in 1..Len(ds)}
    \cup {<<-5000, -5000>>}

Pointers(in, samples) == IF queries_pointer(in) THEN samples ELSE {NoPointer}

Next ==
    \E in \in DeskInputs :
        \E p \in Pointers(in, PointerSamples(displays)) :
            /\ Poll([in EXCEPT !.pointer = p])
            /\ UNCHANGED hist

Spec == InitDesk /\ [][Next]_vars

(***************************************************************************)
(* Specification SpecGrid: every region key and every grid key, one key a  *)
(* poll, on every registry; the driver does not fail.                      *)
(***************************************************************************)
GridInputs ==
    {Input(P, {}, NoPointer, 0) :
        P \in Singles(RegionKeys \cup GridKeys \cup {"Backspace", "Enter"})}

NextGrid == \E in \in GridInputs : Poll(in) /\ UNCHANGED hist

SpecGrid == Init /\ [][NextGrid]_vars

(***************************************************************************)
(* Specification SpecHold: a user who holds one continuous key at a time   *)
(* while moving between the modes; the driver does not fail.               *)
(***************************************************************************)
HoldKeys == {mouse.scroll_down, mouse.move_up}

HoldInputs ==
    {Input(P, H, NoPointer, 0) :
        P \in {{}} \cup Singles({"LR1", "LG3", "Backspace", "Enter"}),
        H \in {{}} \cup Singles(HoldKeys)}

NextHold == \E in \in HoldInputs : Watched(in, ObserveHold(pass_result(in), in))

SpecHold == InitDesk /\ [][NextHold]_vars

(***************************************************************************)
(* Specification SpecScreens: a user who switches screens, on every        *)
(* registry.                                                               *)
(***************************************************************************)
ScreenInputs ==
    {Input(P, {}, NoPointer, 0) :
        P \in {{}} \cup Singles(ScreenKeys \cup {"LR1", "Backspace"}) \cup {ScreenKeys}}

NextScreens == \E in \in ScreenInputs : Watched(in, ObserveRun(pass_result(in), in))

SpecScreens == Init /\ [][NextScreens]_vars

(***************************************************************************)
(* The painted cell (update, Mode::Cell): the rectangle drawn for the      *)
(* selected cell, in screen coordinates (the window sits at                *)
(* display.pos + display.offset and the painter starts at -offset).        *)
(* Numerators over 40 (x) and 24 (y): the min corner, and the cell size    *)
(* is (2 w / 40, 2 h / 24).                                                *)
(***************************************************************************)
cell_rect_min(d, r, c) ==
    <<40 * d.pos[1]
        + d.size[1] * ((IF r < 4 THEN 0 ELSE 20) + 2 * (c % 5) + (IF c >= 15 THEN 10 ELSE 0)),
      24 * d.pos[2]
        + d.size[2] * (6 * (IF r < 4 THEN r ELSE r - 4) + 2 * ((c % 15) \div 5))>>

\* point p (whole pixels) lies in the painted rectangle of cell (r, c) of display d
\* and less than one pixel from its centre
AtCellCentre(d, r, c, p) ==
    LET m == cell_rect_min(d, r, c) IN
    /\ m[1] <= 40 * p[1] /\ 40 * p[1] < m[1] + 2 * d.size[1]
    /\ m[2] <= 24 * p[2] /\ 24 * p[2] < m[2] + 2 * d.size[2]
    /\ m[1] + d.size[1] - 40 < 40 * p[1] /\ 40 * p[1] < m[1] + d.size[1] + 40
    /\ m[2] + d.size[2] - 24 < 24 * p[2] /\ 24 * p[2] < m[2] + d.size[2] + 24

(***************************************************************************)
(* Claims.                                                                 *)
(***************************************************************************)
\* the pass record after a pass on input in from the current state
After(in) == pass_result(in)

Press(k) == Input({k}, {}, NoPointer, 0)

ActiveDisplay == displays[current_display + 1]

\* the last pass was the Narrow handler's and warped the pointer: a grid key went down
GridKeyWarped ==
    /\ handled = <<"Narrow">>
    /\ Len(calls) = 1
    /\ calls[1].op = "move_mouse" /\ calls[1].arg = "Abs" /\ calls[1].ok

WarpTarget == <<calls[1].x, calls[1].y>>

\* C1 (SpecHold): armed-level debounce.  A continuous key held on every pass since
\* and including the pass that entered Cell has not fired; a key seen up by the
\* Cell handler and then held for up to 3 passes has fired on each of them.
C1_Debounce ==
    \A k \in HoldKeys :
        /\ (mode = "Cell" /\ hist.held[k] > hist.age) => hist.fired[k] = 0
        /\ (mode = "Cell" /\ k \in hist.released /\ hist.held[k] <= 3)
              => hist.fired[k] >= hist.held[k]

\* C1 as it holds of the code: the same, when Cell was entered by a grid key
C1_DebounceAfterGridKey == hist.entry = "grid" => C1_Debounce

\* a key held since entry through the grid key, 5 Cell passes later, has not fired
C1_HeldFromEntry ==
    /\ mode = "Cell" /\ hist.entry = "grid" /\ hist.age = 5
    /\ hist.held[mouse.scroll_down] = 6 /\ hist.fired[mouse.scroll_down] = 0

\* C2 (Spec): every pass that enters Cell leaves the armed-key set empty.
C2_EntryClearsArmed ==
    [][(mode # "Cell" /\ mode' = "Cell") => mouse_key_down' = {}]_vars

\* C3 (SpecGrid): round trip.  After a grid key has warped the pointer, the
\* skip-to-cell computation on the warp target finds the active display and the
\* region and cell the warp was computed from.
Located(s) ==
    /\ s.mode = "Cell"
    /\ s.current_display = current_display
    /\ s.region = region
    /\ s.cell = cell

C3_RoundTrip ==
    (mode = "Cell" /\ GridKeyWarped) =>
        /\ first_containing(displays, WarpTarget) = current_display
        /\ locate_in(ActiveDisplay, WarpTarget) = [region |-> region, cell |-> cell]
        /\ Located(skip_to_cell(pass_start, displays, WarpTarget))

\* the last grid key of the last region, on the display at negative coordinates
C3_Witness ==
    /\ mode = "Cell" /\ GridKeyWarped
    /\ current_display = 2 /\ region = 7 /\ cell = 29
    /\ WarpTarget[1] < 0

\* C4 (Spec): in Screen mode region and cell are both -1.
C4_ScreenCleared == mode = "Screen" => (region = -1 /\ cell = -1)

\* C5 (Spec): in Cell mode a cell is selected.
C5_CellSelected == mode = "Cell" => cell >= 0

\* Cell entered by the confirm key: the Narrow handler ran and made no call
C5_Witness ==
    /\ mode = "Cell" /\ handled = <<"Narrow">> /\ calls = <<>> /\ cell >= 0

\* C6 (SpecHold): the transition table is closed.  From every reachable state a
\* pass in which only keys that are no trigger of the current mode go down (one
\* such key, or two of UnlistedPairKeys) leaves mode, region and cell unchanged.
Listed(m, c) ==
    IF m = "Screen"
    THEN RegionKeys \cup ScreenKeys \cup {key_bindings.skip_to_cell, "Escape"}
    ELSE IF m = "Narrow"
    THEN GridKeys \cup {"Backspace", "Escape"} \cup (IF c >= 0 THEN {"Enter"} ELSE {})
    ELSE ClickKeys \cup {"Backspace", "Escape"}

UnlistedPairKeys == {"LR1", "LG3", "RG14", "Enter", "Backspace",
                     key_bindings.skip_to_cell, key_bindings.prev_screen,
                     mouse.left_click, mouse.right_click}

UnlistedInputs(m, c) ==
    {Input(P, H, NoPointer, 0) :
        P \in Singles(EdgeKeys \ Listed(m, c)) \cup Pairs(UnlistedPairKeys \ Listed(m, c)),
        H \in IF m = "Cell" THEN {{}} ELSE {{}, {mouse.scroll_up}}}

Unmoved(s) == s.mode = mode /\ s.region = region /\ s.cell = cell

C6_TableClosed == ~closed => \A in \in UnlistedInputs(mode, cell) : Unmoved(After(in))

\* a pass of the Cell handler in which only a grid key went down
C6_Witness ==
    mode = "Cell" /\ handled = <<"Cell">> /\ hist.last.pressed = {"LG3"} /\ hist.age >= 1

\* C7 (Spec): when the driver fails one call of a Cell pass, the rest of the pass
\* still runs: the mode and the armed keys end as in the pass without the fault,
\* and every relative move of that pass is still dispatched.
FaultInputs ==
    {Input(P, H, NoPointer, 1) :
        P \in {{mouse.left_click}, {mouse.left_click, "Backspace"}},
        H \in {{}, {mouse.move_down}}}

RestStillRuns(bad, good, in) ==
    bad.err =>
        /\ bad.mode = good.mode
        /\ bad.mouse_key_down = good.mouse_key_down
        /\ \A k \in MoveKeys :
              Dispatched(good.calls, key_call(k, config, in))
                  => Dispatched(bad.calls, key_call(k, config, in))

C7_RestStillRuns ==
    (mode = "Cell" /\ ~closed) =>
        \A in \in FaultInputs :
            RestStillRuns(After(in), After([in EXCEPT !.fail_at = 0]), in)

\* C8 (SpecScreens): N presses of prev-screen in a row, or of next-screen, bring
\* the active display back to where the run started (N = the number of displays).
C8_FullCycle ==
    hist.run.count = Len(displays) => current_display = hist.run.start

C8_Witness ==
    /\ Len(displays) = 3 /\ hist.run.count = 3
    /\ hist.run.key = key_bindings.prev_screen
    /\ hist.run.start = 0 /\ current_display = 0

\* C9 (SpecScreens): a Screen pass in which only prev-screen goes down steps the
\* active display to (d - 1 + N) mod N, one with only next-screen to (d + 1) mod N;
\* both leave mode Screen and region and cell as they were.
ScreenKeyPass(k) == hist'.run.count >= 1 /\ hist'.run.key = k

C9_Step ==
    /\ ScreenKeyPass(key_bindings.prev_screen)
          => current_display' = (current_display - 1 + Len(displays)) % Len(displays)
    /\ ScreenKeyPass(key_bindings.next_screen)
          => current_display' = (current_display + 1) % Len(displays)
    /\ hist'.run.count >= 1
          => mode = "Screen" /\ mode' = "Screen" /\ region' = region /\ cell' = cell

C9_ScreenSwitch == [][C9_Step]_vars

\* three displays, prev-screen from display 0: display 2
C9_Witness ==
    /\ Len(displays) = 3 /\ mode = "Screen"
    /\ hist.run = [key |-> key_bindings.prev_screen, count |-> 1, start |-> 0]
    /\ current_display = 2

\* C10 (SpecGrid): two-keystroke addressing.  In Screen a pass with region key r
\* alone ends in Narrow with region r and no cell; in Narrow a pass with grid key c
\* alone ends in Cell with the region kept, cell c and exactly one absolute warp,
\* to the centre of the painted cell (region, c) in whole pixels; that target lies
\* on the active display and is the target of no other (region, cell) pair.
RegionKeyResult(s, r) ==
    s.mode = "Narrow" /\ s.region = r /\ s.cell = -1 /\ s.calls = <<>>

GridKeyResult(s, c) ==
    /\ s.mode = "Cell" /\ s.region = region /\ s.cell = c
    /\ s.current_display = current_display
    /\ Len(s.calls) = 1
    /\ s.calls[1].op = "move_mouse" /\ s.calls[1].arg = "Abs" /\ s.calls[1].ok
    /\ AtCellCentre(ActiveDisplay, region, c, <<s.calls[1].x, s.calls[1].y>>)

regionOrigin(d, r) ==
    <<40 * d.pos[1] + 10 * d.size[1] * (r % 4),
      24 * d.pos[2] + 6 * d.size[2] * (r \div 4)>>

cellCenter(d, r, c) ==
    <<regionOrigin(d, r)[1] + d.size[1] * (2 * (c % 5) + 1),
      regionOrigin(d, r)[2] + d.size[2] * (2 * (c \div 5) + 1)>>

\* whole-pixel point p is the truncation of the point with numerators q
TruncatedFrom(q, p) == p = <<TruncDiv(q[1], 40), TruncDiv(q[2], 24)>>

\* C11 (SpecGrid): the geometry follows the 4 x 4 / 5 x 3 formulas.  After a grid
\* key has warped the pointer, the target is cellCenter(display, region, cell) of
\* these formulas in whole pixels; for region 5 and cell 7 on the display at (0, 0)
\* of size (1000, 900) it is (375, 312), and the skip-to-cell computation on the
\* point (380, 320) of that display returns region 5 and cell 7.
C11_Geometry ==
    (mode = "Cell" /\ GridKeyWarped) =>
        /\ TruncatedFrom(cellCenter(ActiveDisplay, region, cell), WarpTarget)
        /\ (ActiveDisplay.pos = <<0, 0>> /\ ActiveDisplay.size = <<1000, 900>>
            /\ region = 5 /\ cell = 7)
              => /\ WarpTarget = <<375, 312>>
                 /\ locate_in(ActiveDisplay, <<380, 320>>) = [region |-> 5, cell |-> 7]

\* C12 (Spec): in every reachable state region is in [-1, 16) and cell is in
\* [-1, 15).
C12_IndexRanges == region \in -1..15 /\ cell \in -1..14

(***************************************************************************)
(* Specification SpecSpeed: a user who moves the pointer with the speed    *)
(* modifiers, for several configured movement speeds; the driver does not  *)
(* fail and no scroll key is touched.                                      *)
(***************************************************************************)
SpeedConfigs == {[DefaultConfig EXCEPT !.movement_speed = v] : v \in {5, 7, 100}}

\* no speed modifier, one, or two of them
SpeedHolds == {{}} \cup Singles(SpeedKeys) \cup Pairs(SpeedKeys)

SpeedInputs ==
    {Input(P, {}, NoPointer, 0) : P \in Singles({"LR1", "LG3", "Backspace"})}
    \cup {Input({}, M \cup S, NoPointer, 0) :
            M \in {{}, {mouse.move_down}, {mouse.move_left, mouse.move_up}},
            S \in SpeedHolds}

\* the observer of the last input only
ObserveLast(in) == [hist EXCEPT !.last = in]

NextSpeed == \E in \in SpeedInputs : Watched(in, ObserveLast(in))

InitSpeed == StartupWith({SubSeq(DisplayPool, 1, 1)}, SpeedConfigs)

SpecSpeed == InitSpeed /\ [][NextSpeed]_vars

Abs(n) == IF n < 0 THEN -n ELSE n

\* the relative moves the last pass dispatched
RelMoves == {i \in 1..Len(calls) : calls[i].op = "move_mouse" /\ calls[i].arg = "Rel"}

Magnitude(c) == Abs(c.x) + Abs(c.y)

HeldModifiers == hist.last.held \cap SpeedKeys

\* C13 (SpecSpeed): speed modifiers cancel.  For every base movement speed, a
\* relative move dispatched while exactly the half and the double modifier are
\* held moves by the base distance.
C13_HalfDoubleCancel ==
    (handled = <<"Cell">> /\ HeldModifiers = {mouse.speed_half, mouse.speed_twice}) =>
        \A i \in RelMoves : Magnitude(calls[i]) = config.movement_speed

\* C14 (SpecSpeed): speed composition.  Every relative move of a Cell pass moves by
\* the base speed with the modifiers held in that pass applied in the order
\* quarter, half, double, quadruple (integer arithmetic); with base 100 and quarter
\* and double held that is 50.  The modifiers are read as held, they are never
\* armed.
Scaled(base, H) ==
    LET q == IF mouse.speed_quarter \in H THEN base \div 4 ELSE base
        h == IF mouse.speed_half \in H THEN q \div 2 ELSE q
        d == IF mouse.speed_twice \in H THEN h * 2 ELSE h
    IN  IF mouse.speed_quadruple \in H THEN d * 4 ELSE d

C14_SpeedComposition ==
    /\ mouse_key_down \cap SpeedKeys = {}
    /\ handled = <<"Cell">> =>
          \A i \in RelMoves :
              /\ Magnitude(calls[i]) = Scaled(config.movement_speed, HeldModifiers)
              /\ (config.movement_speed = 100
                  /\ HeldModifiers = {mouse.speed_quarter, mouse.speed_twice})
                    => Magnitude(calls[i]) = 50

\* base 100, quarter and double held with move_down: one relative move by (0, 50)
C14_Witness ==
    /\ handled = <<"Cell">> /\ config.movement_speed = 100
    /\ hist.last.held = {mouse.speed_quarter, mouse.speed_twice, mouse.move_down}
    /\ calls = <<Call("move_mouse", "Rel", 0, 50)>>

(***************************************************************************)
(* Specification SpecSkip: a user of the skip-to-cell key, on the          *)
(* registries of Registries and on registries whose displays overlap (a    *)
(* display laid over the lower right quarter of the primary one) or are    *)
(* enumerated in another order; the pointer is at one of SkipPointers when *)
(* it is queried.  The driver does not fail.                               *)
(***************************************************************************)
Overlapping == Display(500, 450, 1000, 900, 0, 0)

SkipRegistries ==
    Registries
    \cup {<<DisplayPool[2], DisplayPool[1]>>,
          <<DisplayPool[1], Overlapping>>,
          <<Overlapping, DisplayPool[1]>>}

\* inside the primary display only; inside it and Overlapping; on the edge the
\* first two displays share; inside the second display and Overlapping; inside the
\* third display; one pixel left of the primary display's row; far from any
\* display; on the bottom edge of the primary display (inside Overlapping)
SkipPointers ==
    {<<125, 337>>, <<750, 600>>, <<1000, 300>>, <<1200, 500>>, <<-400, 300>>,
     <<-801, 50>>, <<-5000, -5000>>, <<600, 900>>}

SkipInputs ==
    {Input(P, {}, NoPointer, 0) :
        P \in Singles({key_bindings.skip_to_cell, key_bindings.next_screen,
                       key_bindings.prev_screen, "LR1", "LG3", "Backspace"})}

NextSkip ==
    \E in \in SkipInputs :
        \E p \in Pointers(in, SkipPointers) :
            Watched([in EXCEPT !.pointer = p], ObserveLast([in EXCEPT !.pointer = p]))

SpecSkip == Startup(SkipRegistries) /\ [][NextSkip]_vars

\* the step is a Screen pass in which only the skip-to-cell key went down
SkipPass == mode = "Screen" /\ hist'.last.pressed = {key_bindings.skip_to_cell}

InNoDisplay(p) == \A i \in 1..Len(displays) : ~contains(displays[i], p)

\* display i (1-based) is the first of the registry that contains p
FirstMatch(i, p) ==
    /\ contains(displays[i], p)
    /\ \A j \in 1..(i - 1) : ~contains(displays[j], p)

\* the viewport commands that reposition the window to display d
Repositioned(d) ==
    <<Cmd("InnerSize", d.size[1] - d.offset[1], d.size[2] - d.offset[2]),
      Cmd("OuterPosition", d.pos[1] + d.offset[1], d.pos[2] + d.offset[2])>>

\* C15 (SpecSkip): skip-to-cell with the pointer in no display is a silent no-op:
\* mode, active display, region, cell and the armed keys are unchanged and no
\* viewport command is sent.
C15_Step ==
    (SkipPass /\ InNoDisplay(hist'.last.pointer)) =>
        /\ UNCHANGED <<mode, current_display, region, cell, mouse_key_down>>
        /\ viewport' = <<>>
        /\ calls' = <<>>

C15_NoMatchNoOp == [][C15_Step]_vars

\* after such a pass taken with keys armed and a cell selected
C15_Witness ==
    /\ mode = "Screen" /\ handled = <<"Screen">>
    /\ hist.last.pressed = {key_bindings.skip_to_cell}
    /\ hist.last.pointer = <<-5000, -5000>>
    /\ mouse_key_down # {} /\ cell >= 0

\* C16 (SpecSkip): skip-to-cell tie-break.  When the pointer is in one or several
\* displays, the first of them in registry order becomes the active display,
\* region and cell are those computed on that display, and the window is
\* repositioned (to that display) exactly when it was not the active display.
C16_Step ==
    \A i \in 1..Len(displays) :
        (SkipPass /\ FirstMatch(i, hist'.last.pointer)) =>
            /\ mode' = "Cell"
            /\ current_display' = i - 1
            /\ [region |-> region', cell |-> cell']
                  = locate_in(displays[i], hist'.last.pointer)
            /\ viewport' = IF i - 1 = current_display THEN <<>>
                           ELSE Repositioned(displays[i])

C16_TieBreak == [][C16_Step]_vars

\* the pointer in two overlapping displays while the second one was active
C16_Witness ==
    /\ mode = "Cell" /\ handled = <<"Screen">>
    /\ hist.last.pressed = {key_bindings.skip_to_cell}
    /\ Len(displays) = 2
    /\ contains(displays[1], hist.last.pointer)
    /\ contains(displays[2], hist.last.pointer)
    /\ displays[2] = Overlapping
    /\ current_display = 0 /\ viewport = Repositioned(displays[1])

\* C17 (Spec): in one pass exactly one of the Screen, Narrow and Cell handlers
\* runs, the one of the mode the pass starts in, whatever the pass does to the mode.
C17_Step == handled' = <<mode>>

C17_OneHandler == [][C17_Step]_vars

\* a pass that changed the mode from Screen to Narrow ran the Screen handler only
C17_Witness == mode = "Narrow" /\ handled = <<"Screen">> /\ cell = -1

\* C18 (Spec): of the Cell bindings only left-click-and-exit ends the session.  In
\* Cell a pass with one of the other click bindings (left, middle, right click,
\* press-down, press-up) dispatches its button action, sends no Close and ends in
\* mode Cell.
KeepsRunning(s) ==
    /\ ~CloseSent(s.viewport)
    /\ s.mode = "Cell"
    /\ Len(s.calls) = 1 /\ s.calls[1].op = "button"

C18_OnlyExitTerminates ==
    (mode = "Cell" /\ ~closed) =>
        \A k \in ClickKeys \ {mouse.left_click_and_exit} : KeepsRunning(After(Press(k)))

\* C19 (SpecGrid): in Narrow a pass in which grid key i, and no other key, goes
\* down (whatever keys are held) stores cell = i, makes exactly one driver call, an
\* absolute warp to the centre of cell i of the current region on the active
\* display, and ends in mode Cell with region and active display as they were.
GridPressInputs(i) ==
    {Input({grid_bindings[i + 1]}, H, NoPointer, 0) :
        H \in {{}, {mouse.move_down}, {mouse.scroll_up, mouse.speed_half}}}

C20_BackClears ==
    (mode = "Narrow" /\ ~closed) =>
        LET s == After(Press("Backspace"))
        IN  s.mode = "Screen" /\ s.region = -1 /\ s.cell = -1

\* C21 (SpecHold): in Cell a pass in which only the back key goes down (whatever
\* key is held) ends in Narrow with active display, region and cell as they were;
\* it runs the Cell handler only and does not end the session.
C21_Step ==
    (mode = "Cell" /\ hist'.last.pressed = {"Backspace"}) =>
        /\ mode' = "Narrow"
        /\ UNCHANGED <<current_display, region, cell>>
        /\ handled' = <<"Cell">>
        /\ viewport' = <<>> /\ ~closed'

C21_BackOneLevel == [][C21_Step]_vars

\* the back key pressed in Cell while a move key was held and fired
C21_Witness ==
    /\ mode = "Narrow" /\ handled = <<"Cell">> /\ ~closed
    /\ hist.last.pressed = {"Backspace"} /\ hist.last.held = {mouse.move_up}
    /\ calls # <<>> /\ cell >= 0

\* C22 (SpecSkip): entering Cell through skip-to-cell warps the pointer: the pass
\* makes one absolute move_mouse call, to the centre of the located cell.
C22_SkipWarps ==
    (mode = "Cell" /\ handled = <<"Screen">>) =>
        /\ Len(calls) = 1
        /\ calls[1].op = "move_mouse" /\ calls[1].arg = "Abs"
        /\ AtCellCentre(ActiveDisplay, region, cell, <<calls[1].x, calls[1].y>>)

\* C23 (SpecGrid): re-pressing the grid key of the selected cell in Cell is
\* idempotent: the pass warps the pointer again to the centre of that cell and
\* leaves mode, region and cell as they were.
C23_RepressRewarps ==
    (mode = "Cell" /\ cell >= 0 /\ ~closed) =>
        GridKeyResult(After(Press(grid_bindings[cell + 1])), cell)

\* C24 (SpecSkip): the active display is a valid index of the registry in every
\* reachable state, whatever prev-screen, next-screen and skip-to-cell passes led
\* to it.
C24_ValidDisplay == current_display \in 0..(Len(displays) - 1)

\* next-screen pressed on the last of three displays: the first display is active
C24_Witness ==
    /\ Len(displays) = 3 /\ mode = "Screen" /\ handled = <<"Screen">>
    /\ hist.last.pressed = {key_bindings.next_screen}
    /\ current_display = 0 /\ viewport = Repositioned(displays[1])

\* point p lies in the closed rectangle painted for cell (r, c) of display d
InCellRect(d, r, c, p) ==
    LET m == cell_rect_min(d, r, c) IN
    /\ m[1] <= 40 * p[1] /\ 40 * p[1] <= m[1] + 2 * d.size[1]
    /\ m[2] <= 24 * p[2] /\ 24 * p[2] <= m[2] + 2 * d.size[2]

\* p lies on the right or the bottom edge of display d
OnFarEdge(d, p) == p[1] = d.pos[1] + d.size[1] \/ p[2] = d.pos[2] + d.size[2]

\* the last pass entered Cell through skip-to-cell
SkipLocated == mode = "Cell" /\ handled = <<"Screen">>

\* C25 (SpecSkip): whenever skip-to-cell matches a display, the region and cell it
\* stores are valid indices (a region of a region key, a cell of a grid key) and
\* the rectangle of that cell on that display contains the pointer position,
\* points on the display's right and bottom edge included.
C25_LocatedCell ==
    SkipLocated =>
        /\ region \in 0..(Len(region_bindings) - 1)
        /\ cell \in 0..(Len(grid_bindings) - 1)
        /\ InCellRect(ActiveDisplay, region, cell, hist.last.pointer)

\* C25 as it holds of the code: the same for pointers off the right and bottom edge
C25_LocatedOffEdge ==
    (SkipLocated /\ ~OnFarEdge(ActiveDisplay, hist.last.pointer)) => C25_LocatedCell

(***************************************************************************)
(* Specification SpecScroll: a user who holds up to three of the scroll    *)
(* keys and of two move keys at a time, on one display; the driver does    *)
(* not fail.                                                               *)
(***************************************************************************)
ScrollHeld == ScrollKeys \cup {mouse.move_down, mouse.move_left}

ScrollInputs ==
    {Input(P, {}, NoPointer, 0) : P \in Singles({"LR1", "LG3", "Backspace"})}
    \cup {Input({}, H, NoPointer, 0) : H \in {K \in SUBSET ScrollHeld : Cardinality(K) <= 3}}

NextScroll == \E in \in ScrollInputs : Watched(in, ObserveLast(in))

SpecScroll == Startup({SubSeq(DisplayPool, 1, 1)}) /\ [][NextScroll]_vars

\* the scroll keys in the order of the chain
ScrollOrder == <<mouse.scroll_up, mouse.scroll_down, mouse.scroll_left, mouse.scroll_right>>

\* key k was armed before the step and is held in it
Eligible(k) == k \in mouse_key_down /\ k \in hist'.last.held

\* the step dispatched the action of continuous key k
Fired(k) == Dispatched(calls', key_call(k, config, hist'.last))

ScrollCalls(cs) == {i \in 1..Len(cs) : cs[i].op = "scroll"}

\* C26 (SpecScroll): in one Cell pass at most one scroll is dispatched, that of the
\* first key in the order up, down, left, right that is armed and held; the scroll
\* keys after it are neither fired nor armed by the pass; every move key that is
\* armed and held fires, whatever else fires.
C26_Step ==
    mode = "Cell" =>
        /\ Cardinality(ScrollCalls(calls')) <= 1
        /\ \A i \in 1..4 :
              /\ Fired(ScrollOrder[i])
                    <=> (Eligible(ScrollOrder[i])
                         /\ \A j \in 1..(i - 1) : ~Eligible(ScrollOrder[j]))
              /\ Fired(ScrollOrder[i]) =>
                    \A j \in (i + 1)..4 :
                        /\ ~Fired(ScrollOrder[j])
                        /\ (ScrollOrder[j] \in mouse_key_down')
                              <=> (ScrollOrder[j] \in mouse_key_down)
        /\ \A k \in MoveKeys : Fired(k) <=> Eligible(k)

C26_ScrollPriority == [][C26_Step]_vars

\* scroll_up fired together with two moves; scroll_right, up but never armed, was
\* not armed by this pass
C26_Witness ==
    /\ mode = "Cell" /\ handled = <<"Cell">>
    /\ hist.last.held = {mouse.scroll_up, mouse.move_down, mouse.move_left}
    /\ Len(calls) = 4 /\ Cardinality(ScrollCalls(calls)) = 1
    /\ mouse.scroll_right \notin mouse_key_down

\* the pass record at the start of the pass that follows the pass that ended in s
next_pass_start(s) ==
    [s EXCEPT !.calls = <<>>, !.viewport = <<>>, !.handled = <<>>, !.err = FALSE]

\* the pass record after a pass on input in that follows the pass that ended in s
Then(s, in) == handle_input(next_pass_start(s), displays, config, in)

\* grid key i pressed in Narrow while the driver fails the first call of the pass
FailedWarp(i) == Input({grid_bindings[i + 1]}, {}, NoPointer, 1)

\* C27 (Spec): when the driver fails the warp of grid key i in Narrow, the pass ends
\* with the error, still in Narrow, with the armed keys as they were and cell = i;
\* a confirm key in the next pass then enters Cell at cell i with no driver call.
WarpFailedResult(s, i) ==
    /\ s.err /\ Len(s.calls) = 1 /\ ~s.calls[1].ok
    /\ s.calls[1].op = "move_mouse" /\ s.calls[1].arg = "Abs"
    /\ s.mode = "Narrow" /\ s.cell = i /\ s.region = region
    /\ s.mouse_key_down = mouse_key_down
    /\ ~CloseSent(s.viewport)

ConfirmedResult(s, i) ==
    /\ s.mode = "Cell" /\ s.cell = i /\ s.region = region
    /\ s.calls = <<>> /\ ~s.err
    /\ s.mouse_key_down = mouse_key_down

C27_FailedWarp ==
    (mode = "Narrow" /\ ~closed) =>
        \A i \in 0..29 :
            /\ WarpFailedResult(After(FailedWarp(i)), i)
            /\ ConfirmedResult(Then(After(FailedWarp(i)), Press("Enter")), i)

\* the pass of the last grid key ended on the failed warp, with keys still armed
C27_Witness ==
    /\ mode = "Narrow" /\ handled = <<"Narrow">> /\ ~closed
    /\ Len(calls) = 1 /\ ~calls[1].ok /\ calls[1].arg = "Abs"
    /\ cell = 29 /\ mouse_key_down # {}

====
